---- MODULE Spec2Model ----
(***************************************************************************)
(* One run of proxmox-stats-to-mqtt.py: collect_stats (the Proxmox API     *)
(* fetches, the per-VM remote df), publish_all_stats_to_mqtt and, with     *)
(* --publish-discovery, publish_discovery_messages.                        *)
(*                                                                         *)
(* Conventions of the model                                                *)
(*  - A Python str on which the code works character by character         *)
(*    (f-string concatenation, endswith, replace, title) is a sequence of *)
(*    one-character strings.  Display strings that are only passed along  *)
(*    are TLA+ strings.                                                    *)
(*  - A metric value is a record [t, n]: t is the Python type ("int",      *)
(*    "float", "str", "iso"), n an integer.  A "float" holds hundredths    *)
(*    (round(x, 2) of the source), a "str" the decimal text of n, an "iso" *)
(*    the epoch second that isoformat() renders.                           *)
(*  - A dict is a record; a key that may be absent is absent from DOMAIN.  *)
(*  - None is the string NoneValue where the other values are strings, and *)
(*    the record [is_none |-> TRUE] where they are lists.                  *)
(*  - Python integers are unbounded and TLC's are 32 bit: the byte counts  *)
(*    drawn as inputs stay below 2^31, and the storage sizes, which are    *)
(*    terabytes in practice, are drawn in units of 10^6 bytes.             *)
(***************************************************************************)
EXTENDS Integers, Sequences, FiniteSets, TLC

----------------------------------------------------------------------------
(* String literals of the source, character by character.                  *)

s_proxmox_host ==
    <<"p", "r", "o", "x", "m", "o", "x", "_", "h", "o", "s", "t">>
s_Proxmox_Host ==
    <<"P", "r", "o", "x", "m", "o", "x", " ", "H", "o", "s", "t">>
s_slash_proxmox_host ==
    <<"/", "p", "r", "o", "x", "m", "o", "x", "_", "h", "o", "s", "t">>
s_proxmox_host_disk_size_gb ==
    <<"p", "r", "o", "x", "m", "o", "x", "_", "h", "o", "s", "t", "_", "d", "i", "s", "k", "_", "s", "i", "z", "e", "_", "g", "b">>
s_proxmox_host_total_cpus ==
    <<"p", "r", "o", "x", "m", "o", "x", "_", "h", "o", "s", "t", "_", "t", "o", "t", "a", "l", "_", "c", "p", "u", "s">>
s_proxmox_host_unallocated_cpus ==
    <<"p", "r", "o", "x", "m", "o", "x", "_", "h", "o", "s", "t", "_", "u", "n", "a", "l", "l", "o", "c", "a", "t", "e", "d", "_", "c", "p", "u", "s">>
s_proxmox_host_memory_used_percent ==
    <<"p", "r", "o", "x", "m", "o", "x", "_", "h", "o", "s", "t", "_", "m", "e", "m", "o", "r", "y", "_", "u", "s", "e", "d", "_", "p", "e", "r", "c", "e", "n", "t">>
s_proxmox_host_disk_used_percent ==
    <<"p", "r", "o", "x", "m", "o", "x", "_", "h", "o", "s", "t", "_", "d", "i", "s", "k", "_", "u", "s", "e", "d", "_", "p", "e", "r", "c", "e", "n", "t">>
s_proxmox_host_last_boot_time ==
    <<"p", "r", "o", "x", "m", "o", "x", "_", "h", "o", "s", "t", "_", "l", "a", "s", "t", "_", "b", "o", "o", "t", "_", "t", "i", "m", "e">>
s_proxmox_ ==
    <<"p", "r", "o", "x", "m", "o", "x", "_">>
s_slash_proxmox_ ==
    <<"/", "p", "r", "o", "x", "m", "o", "x", "_">>
s_qemu ==
    <<"q", "e", "m", "u">>
s_lxc ==
    <<"l", "x", "c">>
s_VM ==
    <<"V", "M">>
s_LXC ==
    <<"L", "X", "C">>
s_underscore ==
    <<"_">>
s_space ==
    <<" ">>
s_slash ==
    <<"/">>
s_last_boot_time ==
    <<"l", "a", "s", "t", "_", "b", "o", "o", "t", "_", "t", "i", "m", "e">>
s_memory_used_percent ==
    <<"m", "e", "m", "o", "r", "y", "_", "u", "s", "e", "d", "_", "p", "e", "r", "c", "e", "n", "t">>
s_disk_used_percent ==
    <<"d", "i", "s", "k", "_", "u", "s", "e", "d", "_", "p", "e", "r", "c", "e", "n", "t">>
s_percent_of_host_memory ==
    <<"p", "e", "r", "c", "e", "n", "t", "_", "o", "f", "_", "h", "o", "s", "t", "_", "m", "e", "m", "o", "r", "y">>
s_percent_of_host_cpu ==
    <<"p", "e", "r", "c", "e", "n", "t", "_", "o", "f", "_", "h", "o", "s", "t", "_", "c", "p", "u">>
s_cpus ==
    <<"c", "p", "u", "s">>
s_memory_allocated_mb ==
    <<"m", "e", "m", "o", "r", "y", "_", "a", "l", "l", "o", "c", "a", "t", "e", "d", "_", "m", "b">>
s_disk_allocated_gb ==
    <<"d", "i", "s", "k", "_", "a", "l", "l", "o", "c", "a", "t", "e", "d", "_", "g", "b">>
s_proxmox_nas ==
    <<"p", "r", "o", "x", "m", "o", "x", "_", "n", "a", "s">>
s_NAS ==
    <<"N", "A", "S">>
s_slash_proxmox_nas ==
    <<"/", "p", "r", "o", "x", "m", "o", "x", "_", "n", "a", "s">>
s_proxmox_nas_disk_size_tb ==
    <<"p", "r", "o", "x", "m", "o", "x", "_", "n", "a", "s", "_", "d", "i", "s", "k", "_", "s", "i", "z", "e", "_", "t", "b">>
s_proxmox_nas_disk_used_gb ==
    <<"p", "r", "o", "x", "m", "o", "x", "_", "n", "a", "s", "_", "d", "i", "s", "k", "_", "u", "s", "e", "d", "_", "g", "b">>
s_proxmox_nas_disk_used_percent ==
    <<"p", "r", "o", "x", "m", "o", "x", "_", "n", "a", "s", "_", "d", "i", "s", "k", "_", "u", "s", "e", "d", "_", "p", "e", "r", "c", "e", "n", "t">>
s_disk_size_gb ==
    <<"d", "i", "s", "k", "_", "s", "i", "z", "e", "_", "g", "b">>
s_unallocated_cpus ==
    <<"u", "n", "a", "l", "l", "o", "c", "a", "t", "e", "d", "_", "c", "p", "u", "s">>
s_disk_size_tb ==
    <<"d", "i", "s", "k", "_", "s", "i", "z", "e", "_", "t", "b">>
s_disk_used_gb ==
    <<"d", "i", "s", "k", "_", "u", "s", "e", "d", "_", "g", "b">>
s_slash_config ==
    <<"/", "c", "o", "n", "f", "i", "g">>
s_home_assistant ==
    <<"h", "o", "m", "e", "-", "a", "s", "s", "i", "s", "t", "a", "n", "t">>
s_file_server ==
    <<"f", "i", "l", "e", "_", "s", "e", "r", "v", "e", "r">>
LowerCase ==
    <<"a", "b", "c", "d", "e", "f", "g", "h", "i", "j", "k", "l", "m", "n", "o", "p", "q", "r", "s", "t", "u", "v", "w", "x", "y", "z">>
UpperCase ==
    <<"A", "B", "C", "D", "E", "F", "G", "H", "I", "J", "K", "L", "M", "N", "O", "P", "Q", "R", "S", "T", "U", "V", "W", "X", "Y", "Z">>
DigitChars ==
    <<"0", "1", "2", "3", "4", "5", "6", "7", "8", "9">>

----------------------------------------------------------------------------
(* Bounds of the model.                                                    *)

\* At most this many VMs and containers are returned by the two list calls.
MaxVms == 2

\* The value time.time() returns during the run, in seconds.
Clock == 1000

----------------------------------------------------------------------------
(* Configuration (lines 25-40): one deployment.                            *)

\* os.getenv("MQTT_TOPIC_PREFIX")
MQTT_TOPIC_PREFIX ==
    <<"p", "v", "e">>

\* os.getenv("MQTT_DISCOVERY_TOPIC")
MQTT_DISCOVERY_TOPIC ==
    <<"h", "a">>

\* os.getenv("PROXMOX_NAS_STORAGE_NAME")
PROXMOX_NAS_STORAGE_NAME == "nas"

NoneValue == "None"

----------------------------------------------------------------------------
(* Python built-ins the code uses.                                         *)

\* d.get(k, default)
Get(d, k, default) == IF k \in DOMAIN d THEN d[k] ELSE default

RECURSIVE GCD(_, _)
GCD(a, b) == IF b = 0 THEN a ELSE GCD(b, a % b)

\* math.ceil(a / b) for a >= 0, b > 0
CeilDiv(a, b) == (a \div b) + (IF a % b = 0 THEN 0 ELSE 1)

\* int(a / b) for a >= 0, b > 0
FloorDiv(a, b) == a \div b

\* round(a / b) to the nearest integer, ties to even (Python 3's round),
\* for a >= 0, b > 0; the quotient is taken exactly, not in binary floating
\* point.
RoundDiv(a, b) ==
    LET q == a \div b
        r == a % b
    IN  IF 2 * r < b THEN q
        ELSE IF 2 * r > b THEN q + 1
        ELSE IF q % 2 = 0 THEN q ELSE q + 1

\* round(used / total * 100, 2) in hundredths, total > 0.  The fraction is
\* reduced first so that the product stays within TLC's integers.
Percent(used, total) ==
    LET g == GCD(used, total)
    IN  RoundDiv((used \div g) * 10000, total \div g)

\* str(n) for n >= 0
RECURSIVE Digits(_)
Digits(n) ==
    IF n < 10 THEN <<DigitChars[n + 1]>>
    ELSE Digits(n \div 10) \o <<DigitChars[(n % 10) + 1]>>

\* s.endswith(suffix)
EndsWith(s, suffix) ==
    /\ Len(suffix) <= Len(s)
    /\ SubSeq(s, Len(s) - Len(suffix) + 1, Len(s)) = suffix

\* s.replace(old, new) for one-character old and new
Replace(s, old, new) ==
    [i \in 1..Len(s) |-> IF s[i] = old THEN new ELSE s[i]]

IndexIn(alphabet, c) ==
    CHOOSE i \in 1..Len(alphabet) : alphabet[i] = c

IsLower(c) == \E i \in 1..Len(LowerCase) : LowerCase[i] = c
IsUpper(c) == \E i \in 1..Len(UpperCase) : UpperCase[i] = c
IsCased(c) == IsLower(c) \/ IsUpper(c)
ToUpper(c) == IF IsLower(c) THEN UpperCase[IndexIn(LowerCase, c)] ELSE c
ToLower(c) == IF IsUpper(c) THEN LowerCase[IndexIn(UpperCase, c)] ELSE c

\* s.title(): a cased character is upper-cased when the character before it
\* is not cased, and lower-cased otherwise.
Title(s) ==
    [i \in 1..Len(s) |->
        IF i > 1 /\ IsCased(s[i - 1]) THEN ToLower(s[i]) ELSE ToUpper(s[i])]

\* s.lower() on the values a device_class can take
Lower(s) == IF s \in {"None", "NONE", "none"} THEN "none" ELSE s

----------------------------------------------------------------------------
(* Conversion functions, lines 66-69.                                      *)

MiB == 1024 * 1024
GiB == 1024 * 1024 * 1024

\* int(bytes_to_mib(num_bytes)), line 272
int_bytes_to_mib(num_bytes) == FloorDiv(num_bytes, MiB)

\* math.ceil(bytes_to_gib(num_bytes)), lines 192, 242, 256
ceil_bytes_to_gib(num_bytes) == CeilDiv(num_bytes, GiB)

\* round(bytes_to_tb(num_bytes), 2) in hundredths, line 296; the argument is
\* in units of 10^6 bytes.
round_bytes_to_tb(num_mb) == RoundDiv(num_mb, 10000)

\* round(bytes_to_gb(num_bytes), 2) in hundredths, line 297; the argument is
\* in units of 10^6 bytes.
round_bytes_to_gb(num_mb) == RoundDiv(num_mb, 10)

\* round(used_fraction * 100, 1) in hundredths, line 298; the argument is in
\* thousandths, so the percentage has one decimal exactly.
round_used_fraction(permille) == permille * 10

IntVal(n) == [t |-> "int", n |-> n]
FloatVal(n) == [t |-> "float", n |-> n]
StrVal(n) == [t |-> "str", n |-> n]
IsoVal(n) == [t |-> "iso", n |-> n]

\* One item of a dict's items(), in insertion order.
Item(k, v) == [key |-> k, value |-> v]

----------------------------------------------------------------------------
\* get_friendly_name, lines 89-100.  name is a character sequence or
\* NoneSeq (no "name" field in the status).
NoneSeq == <<>>

get_friendly_name(vmid, name, vm_type) ==
    LET friendly_name ==
            IF name # NoneSeq THEN name
            ELSE vm_type \o s_space \o Digits(vmid)
    IN  Title(Replace(Replace(friendly_name, "_", " "), "-", " "))
            \o s_space \o (IF vm_type = s_qemu THEN s_VM ELSE s_LXC)

----------------------------------------------------------------------------
(* The environment: what the Proxmox API, the guests' sshd and the          *)
(* process environment can answer.                                          *)

\* Ids chosen so that the digits of one are a prefix of the other's.
VmIds == {1, 11}

\* One entry of GET /nodes/{node}/qemu or /lxc; a stopped guest's entry
\* carries no "cpus".
ListEntry(vmid) ==
    IF vmid = 1 THEN [vmid |-> vmid, maxmem |-> 2 * MiB, cpus |-> 2]
    ELSE [vmid |-> vmid, maxmem |-> 2 * MiB]

\* The lists of at most n entries with distinct vmids.
VmLists(n) ==
    { s \in UNION { [1..k -> {ListEntry(v) : v \in VmIds}] : k \in 0..n } :
        \A a, b \in 1..Len(s) : a # b => s[a].vmid # s[b].vmid }

\* GET /nodes/{node}/status
NodeStatuses ==
    { [memory |-> [total |-> GiB, used |-> GiB \div 2],
       rootfs |-> [total |-> GiB + GiB \div 2, used |-> GiB \div 4],
       cpuinfo |-> [cpus |-> 8], uptime |-> 600],
      [memory |-> [total |-> 0, used |-> 0],
       rootfs |-> [total |-> GiB, used |-> GiB \div 4],
       cpuinfo |-> [cpus |-> 8], uptime |-> 600],
      [memory |-> [total |-> GiB, used |-> GiB \div 2],
       rootfs |-> [total |-> 0, used |-> 0],
       cpuinfo |-> [cpus |-> 8]] }

\* GET /nodes/{node}/{type}/{vmid}/status/current; "cpu" is in hundredths
\* of one CPU.
VmStatuses ==
    { [name |-> s_home_assistant, maxmem |-> 2 * MiB, mem |-> MiB,
       cpus |-> 2, cpu |-> 50, maxdisk |-> GiB, disk |-> GiB \div 2,
       uptime |-> 100],
      [name |-> s_file_server, maxmem |-> 2 * MiB, mem |-> MiB,
       cpus |-> 1, cpu |-> 25, maxdisk |-> GiB + GiB \div 2,
       disk |-> GiB \div 2],
      [cpus |-> 1] }

\* GET /nodes/{node}/storage; sizes in units of 10^6 bytes, used_fraction in
\* thousandths.
StorageEntry(name) ==
    IF name = "nas"
    THEN [storage |-> name, total |-> 6000000, used |-> 3000000,
          used_fraction |-> 500]
    ELSE [storage |-> name, total |-> 100000, used |-> 10000,
          used_fraction |-> 100]

StorageLists ==
    { <<StorageEntry("local")>>,
      <<StorageEntry("local"), StorageEntry("nas")>> }

\* What "df -h / | awk 'NR==2 { print $5 }'" prints, without its "%\n".
DfPercents == {42}

----------------------------------------------------------------------------
(* The state of one run.                                                    *)

VARIABLES
    pc,                 \* where the run is
    publish_discovery,  \* args.publish_discovery
    vms,                \* get_all_vms' all_vms
    node_status,        \* get_host_stats' node_status, <<>> before the fetch
    vm_statuses,        \* the vm_status each get_vm_stats call fetched
    ssh_env,            \* per get_vm_stats call: its guest is a VM and the
                        \* SSH_*_QEMU_<vmid> variables are set
    stats,              \* collect_stats' stats
    fetches,            \* the get_json calls made: [path, ok]
    ssh_calls,          \* the get_vm_disk_usage calls made: [vmid, configured, ok]
    clients,            \* the mqtt.Client objects connected, in order
    log,                \* the client.publish calls made, in order
    cur,                \* the position of the publishing loops
    err                 \* the exception that ended the run, or NoneValue

vars ==
    <<pc, publish_discovery, vms, node_status, vm_statuses, ssh_env, stats,
      fetches, ssh_calls, clients, log, cur, err>>

\* A Python list, and None where a list is expected.
PyList(l) == [is_none |-> FALSE, list |-> l]
PyNone == [is_none |-> TRUE, list |-> <<>>]

\* The keys of stats in insertion order, lines 312-316.
StatsKeys == <<"host", "vms", "nas">>

NoCursor == [kind |-> "end", c |-> 0, d |-> 0, k |-> 0]

Init ==
    /\ pc = "get_qemu"
    /\ publish_discovery \in BOOLEAN
    /\ vms = <<>>
    /\ node_status = <<>>
    /\ vm_statuses = <<>>
    /\ ssh_env = <<>>
    /\ stats = [host |-> PyList(<<>>), vms |-> PyList(<<>>), nas |-> PyNone]
    /\ fetches = <<>>
    /\ ssh_calls = <<>>
    /\ clients = <<>>
    /\ log = <<>>
    /\ cur = NoCursor
    /\ err = NoneValue

\* A get_json that does not check the response's status.
raise_for_status_ignored(ok) == FALSE

\* response.raise_for_status(), line 85: whether the call raises.
raise_for_status(ok) == ~ok

\* An unhandled exception ends the run.
Raise(e) ==
    /\ pc' = "error"
    /\ err' = e

\* get_json's bookkeeping for one call.
Fetched(path, ok) == fetches' = Append(fetches, [path |-> path, ok |-> ok])

WithType(list, vm_type) ==
    [j \in 1..Len(list) |-> list[j] @@ [type |-> vm_type]]

\* get_all_vms, lines 109-111: the qemu list.
GetQemuList ==
    /\ pc = "get_qemu"
    /\ \E ok \in BOOLEAN, data \in VmLists(MaxVms) :
        /\ Fetched("qemu", ok)
        /\ IF raise_for_status(ok)
           THEN Raise("HTTPError") /\ UNCHANGED vms
           ELSE /\ vms' = WithType(data, s_qemu)
                /\ pc' = "get_lxc"
                /\ UNCHANGED err
    /\ UNCHANGED <<publish_discovery, node_status, vm_statuses, ssh_env, stats,
                   ssh_calls, clients, log, cur>>

\* get_all_vms, lines 113-117: the lxc list, appended.
GetLxcList ==
    /\ pc = "get_lxc"
    /\ \E ok \in BOOLEAN, data \in VmLists(MaxVms - Len(vms)) :
        /\ Fetched("lxc", ok)
        /\ IF raise_for_status(ok)
           THEN Raise("HTTPError") /\ UNCHANGED vms
           ELSE /\ vms' = vms \o WithType(data, s_lxc)
                /\ pc' = "host"
                /\ UNCHANGED err
    /\ UNCHANGED <<publish_discovery, node_status, vm_statuses, ssh_env, stats,
                   ssh_calls, clients, log, cur>>

\* sum(vm.get(field, 0) for vm in vms), lines 159 and 166
RECURSIVE SumField(_, _)
SumField(list, field) ==
    IF list = <<>> THEN 0
    ELSE Get(Head(list), field, 0) + SumField(Tail(list), field)

\* int(time.time()) - int(uptime_seconds), rendered by isoformat();
\* lines 174-176 and 245-247
last_boot_time_iso(status) == IsoVal(Clock - Get(status, "uptime", 0))

\* Whether get_host_stats' return expression divides by zero, lines 208-209.
host_stats_raises(status) ==
    status.memory.total = 0 \/ status.rootfs.total = 0

\* get_host_stats' result from the fetched node_status, lines 156-213.
host_stats(all_vms, status) ==
    LET total_host_mem == status.memory.total
        used_mem == status.memory.used
        vm_allocated_mem == SumField(all_vms, "maxmem")
        total_disk == status.rootfs.total
        used_disk == status.rootfs.used
        total_cpus == status.cpuinfo.cpus
        vm_allocated_cpus == SumField(all_vms, "cpus")
        unallocated_cpus == total_cpus - vm_allocated_cpus
    IN  << [device_id |-> s_proxmox_host,
            device_model |-> "Proxmox Host",
            friendly_name |-> s_Proxmox_Host,
            total_host_mem |-> total_host_mem,
            total_host_cpus |-> total_cpus,
            state_topic_prefix |-> MQTT_TOPIC_PREFIX \o s_slash_proxmox_host,
            stats |-> <<
                Item(s_proxmox_host_disk_size_gb,
                     IntVal(ceil_bytes_to_gib(total_disk))),
                Item(s_proxmox_host_total_cpus, IntVal(total_cpus)),
                Item(s_proxmox_host_unallocated_cpus,
                     IntVal(unallocated_cpus)),
                Item(s_proxmox_host_memory_used_percent,
                     FloatVal(Percent(used_mem, total_host_mem))),
                Item(s_proxmox_host_disk_used_percent,
                     FloatVal(Percent(used_disk, total_disk))),
                Item(s_proxmox_host_last_boot_time,
                     last_boot_time_iso(status)) >>] >>

\* get_host_stats, lines 142-213, called at line 313.
GetHostStats ==
    /\ pc = "host"
    /\ \E ok \in BOOLEAN, status \in NodeStatuses :
        /\ Fetched("status", ok)
        /\ IF raise_for_status(ok)
           THEN Raise("HTTPError") /\ UNCHANGED <<node_status, stats>>
           ELSE /\ node_status' = <<status>>
                /\ IF host_stats_raises(status)
                   THEN Raise("ZeroDivisionError") /\ UNCHANGED stats
                   ELSE /\ stats' = [stats EXCEPT
                                !.host = PyList(host_stats(vms, status))]
                        /\ pc' = "nas"
                        /\ UNCHANGED err
    /\ UNCHANGED <<publish_discovery, vms, vm_statuses, ssh_env, ssh_calls, clients,
                   log, cur>>

\* next((s for s in storage_data if s.get("storage") == storage_name), None),
\* line 287: the index of the first match, 0 for None.
FirstStorage(storage_data, storage_name) ==
    LET hits == { j \in 1..Len(storage_data) :
                    Get(storage_data[j], "storage", NoneValue) = storage_name }
    IN  IF hits = {} THEN 0
        ELSE CHOOSE j \in hits : \A h \in hits : j <= h

\* get_nas_stats, lines 278-302.
get_nas_stats(storage_data, storage_name) ==
    LET j == FirstStorage(storage_data, storage_name)
        storage == storage_data[j]
    IN  IF j # 0
        THEN PyList(<< [device_id |-> s_proxmox_nas,
                        device_model |-> "NAS",
                        friendly_name |-> s_NAS,
                        state_topic_prefix |->
                            MQTT_TOPIC_PREFIX \o s_slash_proxmox_nas,
                        stats |-> <<
                            Item(s_proxmox_nas_disk_size_tb,
                                 FloatVal(round_bytes_to_tb(
                                     Get(storage, "total", 0)))),
                            Item(s_proxmox_nas_disk_used_gb,
                                 FloatVal(round_bytes_to_gb(
                                     Get(storage, "used", 0)))),
                            Item(s_proxmox_nas_disk_used_percent,
                                 FloatVal(round_used_fraction(
                                     Get(storage, "used_fraction", 0)))) >>] >>)
        ELSE PyNone

\* Line 315: the storage list is fetched and handed to get_nas_stats.
GetNasStats ==
    /\ pc = "nas"
    /\ \E ok \in BOOLEAN, storage_data \in StorageLists :
        /\ Fetched("storage", ok)
        /\ IF raise_for_status(ok)
           THEN Raise("HTTPError") /\ UNCHANGED stats
           ELSE /\ stats' = [stats EXCEPT !.nas =
                        get_nas_stats(storage_data, PROXMOX_NAS_STORAGE_NAME)]
                /\ pc' = "vm"
                /\ UNCHANGED err
    /\ UNCHANGED <<publish_discovery, vms, node_status, vm_statuses, ssh_env,
                   ssh_calls, clients, log, cur>>

\* A prefix that leaves the guest's type out: f"proxmox_{vmid}".
sensor_key_prefix_without_type(vm_type, vmid) ==
    s_proxmox_ \o Digits(vmid)

\* f"proxmox_{vm_type}_{vmid}", line 236
sensor_key_prefix(vm_type, vmid) ==
    s_proxmox_ \o vm_type \o s_underscore \o Digits(vmid)

\* Lines 256-257: a container's disk_used_percent, in hundredths.
lxc_disk_used_percent(vm_status) ==
    LET disk_alloc_gb == ceil_bytes_to_gib(Get(vm_status, "maxdisk", 0))
        disk_used_gb == ceil_bytes_to_gib(Get(vm_status, "disk", 0))
    IN  IF disk_alloc_gb # 0
        THEN FloatVal(Percent(disk_used_gb, disk_alloc_gb))
        ELSE IntVal(0)

\* get_vm_disk_usage's return, line 139: the output stripped of "%".
df_used_percent(df_percent) == StrVal(df_percent)

\* get_vm_stats' result, lines 236-275, from the fetched vm_status and the
\* vm_disk_used_percent of lines 250-257.
vm_stats(vmid, vm_type, total_host_mem, total_host_cpus, vm_status, vm_disk_used_percent) ==
    LET prefix == sensor_key_prefix(vm_type, vmid)
        mem_alloc == Get(vm_status, "maxmem", 0)
        mem_used == Get(vm_status, "mem", 0)
        cpus == Get(vm_status, "cpus", 0)
        cpu_fraction == Get(vm_status, "cpu", 0)
        disk_alloc_gb == ceil_bytes_to_gib(Get(vm_status, "maxdisk", 0))
    IN  [friendly_name |->
            get_friendly_name(vmid, Get(vm_status, "name", NoneSeq), vm_type),
         device_id |-> prefix,
         device_model |-> IF vm_type = s_qemu THEN "VM" ELSE "LXC",
         state_topic_prefix |->
            MQTT_TOPIC_PREFIX \o s_slash_proxmox_ \o vm_type \o s_slash
                \o Digits(vmid),
         stats |-> <<
            Item(prefix \o s_underscore \o s_last_boot_time,
                 last_boot_time_iso(vm_status)),
            Item(prefix \o s_underscore \o s_memory_used_percent,
                 IF mem_alloc # 0
                 THEN FloatVal(Percent(mem_used, mem_alloc)) ELSE IntVal(0)),
            Item(prefix \o s_underscore \o s_disk_used_percent,
                 vm_disk_used_percent),
            Item(prefix \o s_underscore \o s_percent_of_host_memory,
                 IF total_host_mem # 0
                 THEN FloatVal(Percent(mem_used, total_host_mem))
                 ELSE IntVal(0)),
            Item(prefix \o s_underscore \o s_percent_of_host_cpu,
                 IF total_host_cpus # 0
                 THEN FloatVal(Percent(cpu_fraction, total_host_cpus * 100))
                 ELSE IntVal(0)),
            Item(prefix \o s_underscore \o s_cpus, IntVal(cpus)),
            Item(prefix \o s_underscore \o s_memory_allocated_mb,
                 IntVal(int_bytes_to_mib(mem_alloc))),
            Item(prefix \o s_underscore \o s_disk_allocated_gb,
                 IntVal(disk_alloc_gb)) >>]

\* Lines 250-254: whether get_vm_stats calls get_vm_disk_usage for a guest of
\* this type whose SSH_* variables are set or not.
calls_get_vm_disk_usage(vm_type, configured) == vm_type = s_qemu

\* One iteration of collect_stats' loop, lines 318-320: get_vm_stats for
\* vms[n], n the number of guests already collected plus one.  configured is
\* whether SSH_HOST_QEMU_<vmid>, SSH_USERNAME_QEMU_<vmid> and
\* SSH_KEY_PATH_QEMU_<vmid> are set; unset, ssh.connect(None, ...) is still
\* attempted and either outcome is possible.
GetVmStats ==
    /\ pc = "vm"
    /\ Len(stats.vms.list) < Len(vms)
    /\ LET vm == vms[Len(stats.vms.list) + 1]
           host == stats.host.list[1]
       IN  \E ok \in BOOLEAN, vm_status \in VmStatuses,
              configured \in BOOLEAN, ssh_ok \in BOOLEAN,
              df_percent \in DfPercents :
            LET ssh == calls_get_vm_disk_usage(vm.type, configured)
                vm_disk_used_percent ==
                    IF vm.type = s_qemu
                    THEN df_used_percent(df_percent)
                    ELSE lxc_disk_used_percent(vm_status)
            IN  /\ Fetched("current", ok)
                /\ IF raise_for_status(ok)
                   THEN /\ Raise("HTTPError")
                        /\ UNCHANGED <<vm_statuses, ssh_env, stats, ssh_calls>>
                   ELSE /\ vm_statuses' = Append(vm_statuses, vm_status)
                        /\ ssh_env' = Append(ssh_env,
                                vm.type = s_qemu /\ configured)
                        /\ ssh_calls' =
                            IF ssh
                            THEN Append(ssh_calls,
                                    [vmid |-> vm.vmid,
                                     configured |-> configured,
                                     ok |-> ssh_ok])
                            ELSE ssh_calls
                        /\ IF ssh /\ ~ssh_ok
                           THEN Raise("SSHException") /\ UNCHANGED stats
                           ELSE /\ stats' = [stats EXCEPT !.vms.list =
                                    Append(@, vm_stats(vm.vmid, vm.type,
                                        host.total_host_mem,
                                        host.total_host_cpus, vm_status,
                                        vm_disk_used_percent))]
                                /\ UNCHANGED <<pc, err>>
    /\ UNCHANGED <<publish_discovery, vms, node_status, clients, log, cur>>

----------------------------------------------------------------------------
(* Publishing.                                                              *)

\* The nested loops of lines 335-337 and 437-439 walk stats.items(), each
\* category's devices and, for the raw metrics, each device's stats.items().
\* Seek gives the first position at or after (c, d, k) that holds an item:
\* kind "item", or "TypeError" where a category's value is None and the for
\* statement over it raises, or "end" when the loops are over.
RECURSIVE Seek(_, _, _, _)
Seek(st, c, d, k) ==
    IF c > Len(StatsKeys) THEN [kind |-> "end", c |-> c, d |-> 1, k |-> 1]
    ELSE LET devices == st[StatsKeys[c]]
         IN  IF devices.is_none
             THEN [kind |-> "TypeError", c |-> c, d |-> 1, k |-> 1]
             ELSE IF d > Len(devices.list) THEN Seek(st, c + 1, 1, 1)
             ELSE IF k > Len(devices.list[d].stats) THEN Seek(st, c, d + 1, 1)
             ELSE [kind |-> "item", c |-> c, d |-> d, k |-> k]

CurDevice == stats[StatsKeys[cur.c]].list[cur.d]
CurItem == CurDevice.stats[cur.k]

\* mqtt.Client(), username_pw_set, connect, lines 330-332 and 433-435.
NewClient(loop) == [connected |-> TRUE, loop |-> loop, disconnected |-> FALSE]

\* client.loop_stop() on the newest client, lines 342 and 441.
LoopStopped == [clients EXCEPT ![Len(clients)].loop = "stopped"]

\* A topic built from the device's id instead of its state_topic_prefix.
publish_topic_by_device_id(device, sensor_key) ==
    MQTT_TOPIC_PREFIX \o s_slash \o device.device_id \o s_slash \o sensor_key

\* device['state_topic_prefix'] + '/' + sensor_key, line 338
publish_topic(device, sensor_key) ==
    device.state_topic_prefix \o s_slash \o sensor_key

\* retain=True, line 339
publish_retain == TRUE

\* publish_all_stats_to_mqtt up to its loops, lines 329-333; the connect may
\* fail, which raises.
StartPublishAll ==
    \E ok \in BOOLEAN :
        IF ok
        THEN /\ clients' = Append(clients, NewClient("started"))
             /\ cur' = Seek(stats, 1, 1, 1)
             /\ pc' = "publish"
             /\ UNCHANGED err
        ELSE Raise("ConnectionError") /\ UNCHANGED <<clients, cur>>

\* collect_stats returns (line 322) and main calls publish_all_stats_to_mqtt
\* (line 450).
PublishConnect ==
    /\ pc = "vm"
    /\ Len(stats.vms.list) = Len(vms)
    /\ StartPublishAll
    /\ UNCHANGED <<publish_discovery, vms, node_status, vm_statuses, ssh_env, stats,
                   fetches, ssh_calls, log>>

\* One client.publish of the loop body, lines 338-339.
PublishStat ==
    /\ pc = "publish"
    /\ cur.kind = "item"
    /\ log' = Append(log,
            [client |-> Len(clients),
             topic |-> publish_topic(CurDevice, CurItem.key),
             payload |-> CurItem.value,
             retain |-> publish_retain])
    /\ cur' = Seek(stats, cur.c, cur.d, cur.k + 1)
    /\ UNCHANGED <<pc, publish_discovery, vms, node_status, vm_statuses, ssh_env,
                   stats, fetches, ssh_calls, clients, err>>

\* "for device in devices" over None, line 336.
PublishTypeError ==
    /\ pc = "publish"
    /\ cur.kind = "TypeError"
    /\ Raise("TypeError")
    /\ UNCHANGED <<publish_discovery, vms, node_status, vm_statuses, ssh_env, stats,
                   fetches, ssh_calls, clients, log, cur>>

\* client.loop_stop(), line 342, and the return to main.
PublishLoopStop ==
    /\ pc = "publish"
    /\ cur.kind = "end"
    /\ clients' = LoopStopped
    /\ pc' = "main_if"
    /\ UNCHANGED <<publish_discovery, vms, node_status, vm_statuses, ssh_env, stats,
                   fetches, ssh_calls, log, cur, err>>

\* Lines 452 and 455 without --publish-discovery: the run ends.
MainDone ==
    /\ pc = "main_if"
    /\ ~publish_discovery
    /\ pc' = "done"
    /\ UNCHANGED <<publish_discovery, vms, node_status, vm_statuses, ssh_env, stats,
                   fetches, ssh_calls, clients, log, cur, err>>

----------------------------------------------------------------------------
(* Discovery.                                                               *)

SensorDef(key, name, unit, device_class, icon) ==
    [sensor_key |-> key, friendly_name |-> name, unit |-> unit,
     device_class |-> device_class, icon |-> icon]

\* A catalog that lacks the "cpus" entry.
sensor_definitions_without_cpus ==
    << SensorDef(s_memory_used_percent, "Memory Used", "%", NoneValue,
                 "mdi:memory"),
       SensorDef(s_disk_used_percent, "Disk Used", "%", NoneValue,
                 "mdi:harddisk"),
       SensorDef(s_last_boot_time, "Last Boot Time", NoneValue, "timestamp",
                 "mdi:clock-outline"),
       SensorDef(s_disk_size_gb, "Disk Size", "GB", "data_size",
                 "mdi:harddisk"),
       SensorDef(s_unallocated_cpus, "Unallocated CPUs", NoneValue, NoneValue,
                 "mdi:cpu-64-bit"),
       SensorDef(s_percent_of_host_memory, "% of Host Memory", "%", NoneValue,
                 "mdi:memory"),
       SensorDef(s_percent_of_host_cpu, "% of Host CPU", "%", NoneValue,
                 "mdi:cpu-64-bit"),
       SensorDef(s_memory_allocated_mb, "Memory Allocated", "MB", "data_size",
                 "mdi:memory"),
       SensorDef(s_disk_allocated_gb, "Disk Allocated", "GB", "data_size",
                 "mdi:harddisk"),
       SensorDef(s_disk_size_tb, "Disk Size", "TB", "data_size",
                 "mdi:harddisk"),
       SensorDef(s_disk_used_gb, "Disk Used", "GB", "data_size",
                 "mdi:harddisk") >>

\* The catalog of lines 384-404, in its order.
sensor_definitions ==
    << SensorDef(s_memory_used_percent, "Memory Used", "%", NoneValue,
                 "mdi:memory"),
       SensorDef(s_disk_used_percent, "Disk Used", "%", NoneValue,
                 "mdi:harddisk"),
       SensorDef(s_last_boot_time, "Last Boot Time", NoneValue, "timestamp",
                 "mdi:clock-outline"),
       SensorDef(s_disk_size_gb, "Disk Size", "GB", "data_size",
                 "mdi:harddisk"),
       SensorDef(s_unallocated_cpus, "Unallocated CPUs", NoneValue, NoneValue,
                 "mdi:cpu-64-bit"),
       SensorDef(s_percent_of_host_memory, "% of Host Memory", "%", NoneValue,
                 "mdi:memory"),
       SensorDef(s_percent_of_host_cpu, "% of Host CPU", "%", NoneValue,
                 "mdi:cpu-64-bit"),
       SensorDef(s_cpus, "CPUs", "", NoneValue, "mdi:cpu-64-bit"),
       SensorDef(s_memory_allocated_mb, "Memory Allocated", "MB", "data_size",
                 "mdi:memory"),
       SensorDef(s_disk_allocated_gb, "Disk Allocated", "GB", "data_size",
                 "mdi:harddisk"),
       SensorDef(s_disk_size_tb, "Disk Size", "TB", "data_size",
                 "mdi:harddisk"),
       SensorDef(s_disk_used_gb, "Disk Used", "GB", "data_size",
                 "mdi:harddisk") >>

\* The entries of the catalog whose sensor_key the metric key ends with.
Matches(sensor_key) ==
    { j \in 1..Len(sensor_definitions) :
        EndsWith(sensor_key, sensor_definitions[j].sensor_key) }

\* next((s for s in sensor_definitions if sensor_key.endswith(...)), None),
\* line 415: the index of the first match, 0 for None.
FirstMatch(sensor_key) ==
    IF Matches(sensor_key) = {} THEN 0
    ELSE CHOOSE j \in Matches(sensor_key) :
            \A h \in Matches(sensor_key) : j <= h

\* Python truthiness of an optional string.
Truthy(x) == x # NoneValue /\ x # ""

\* The device_class argument of line 424.
device_class_arg(sensor_definition) ==
    IF Truthy(sensor_definition.device_class)
       /\ Lower(sensor_definition.device_class) # "none"
    THEN sensor_definition.device_class
    ELSE NoneValue

\* Lines 406-411
device_info(device_id, device_model, device_friendly_name) ==
    [identifiers |-> <<device_id>>, manufacturer |-> "Proxmox",
     model |-> device_model, name |-> device_friendly_name]

\* f"{state_topic_prefix}/{sensor_key}", line 421
discovery_state_topic(state_topic_prefix, sensor_key) ==
    state_topic_prefix \o s_slash \o sensor_key

\* A payload that always carries state_class.
discovery_payload_always_measurement(sensor_key, name, state_topic, info, unit, device_class, icon) ==
    [name |-> name, state_topic |-> state_topic, unique_id |-> sensor_key,
     object_id |-> sensor_key, device |-> info, unit_of_measurement |-> unit,
     state_class |-> "measurement"]
    @@ (IF Truthy(device_class)
        THEN [device_class |-> device_class] ELSE <<>>)
    @@ (IF Truthy(icon) THEN [icon |-> icon] ELSE <<>>)

\* publish_discovery_message's payload, lines 352-370: the dict handed to
\* json.dumps.
discovery_payload(sensor_key, name, state_topic, info, unit, device_class, icon) ==
    [name |-> name, state_topic |-> state_topic, unique_id |-> sensor_key,
     object_id |-> sensor_key, device |-> info, unit_of_measurement |-> unit]
    @@ (IF Truthy(device_class)
        THEN [device_class |-> device_class]
             @@ (IF device_class # "timestamp"
                 THEN [state_class |-> "measurement"] ELSE <<>>)
        ELSE [state_class |-> "measurement"])
    @@ (IF Truthy(icon) THEN [icon |-> icon] ELSE <<>>)

\* f"{MQTT_DISCOVERY_TOPIC}/{sensor_key}/config", line 372
discovery_topic(sensor_key) ==
    MQTT_DISCOVERY_TOPIC \o s_slash \o sensor_key \o s_slash_config

\* Lines 452-453 with --publish-discovery, and publish_discovery_messages up
\* to its loops, lines 433-435: a second mqtt.Client is made and connected;
\* loop_start is not called on it.
DiscoveryConnect ==
    /\ pc = "main_if"
    /\ publish_discovery
    /\ \E ok \in BOOLEAN :
        IF ok
        THEN /\ clients' = Append(clients, NewClient("never started"))
             /\ cur' = Seek(stats, 1, 1, 1)
             /\ pc' = "discover"
             /\ UNCHANGED err
        ELSE Raise("ConnectionError") /\ UNCHANGED <<clients, cur>>
    /\ UNCHANGED <<publish_discovery, vms, node_status, vm_statuses, ssh_env, stats,
                   fetches, ssh_calls, log>>

\* One iteration of publish_sensor_discovery_by_device's loop, lines 413-426,
\* with the publish_discovery_message it calls, lines 352-377 (the half
\* second of sleep changes no state).  A key no catalog entry matches makes
\* sensor_definition None, and subscripting it raises.
DiscoveryPublish ==
    /\ pc = "discover"
    /\ cur.kind = "item"
    /\ LET device == CurDevice
           sensor_key == CurItem.key
           j == FirstMatch(sensor_key)
           sensor_definition == sensor_definitions[j]
       IN  IF j = 0
           THEN Raise("TypeError") /\ UNCHANGED <<log, cur>>
           ELSE /\ log' = Append(log,
                    [client |-> Len(clients),
                     topic |-> discovery_topic(sensor_key),
                     payload |-> discovery_payload(sensor_key,
                        sensor_definition.friendly_name,
                        discovery_state_topic(device.state_topic_prefix,
                                              sensor_key),
                        device_info(device.device_id, device.device_model,
                                    device.friendly_name),
                        sensor_definition.unit,
                        device_class_arg(sensor_definition),
                        sensor_definition.icon),
                     retain |-> TRUE])
                /\ cur' = Seek(stats, cur.c, cur.d, cur.k + 1)
                /\ UNCHANGED <<pc, err>>
    /\ UNCHANGED <<publish_discovery, vms, node_status, vm_statuses, ssh_env, stats,
                   fetches, ssh_calls, clients>>

\* The loops of lines 437-439 end: over a None category the for statement
\* raises; otherwise client.loop_stop(), line 441, and line 455.
DiscoveryEnd ==
    /\ pc = "discover"
    /\ cur.kind # "item"
    /\ IF cur.kind = "TypeError"
       THEN Raise("TypeError") /\ UNCHANGED clients
       ELSE /\ clients' = LoopStopped
            /\ pc' = "done"
            /\ UNCHANGED err
    /\ UNCHANGED <<publish_discovery, vms, node_status, vm_statuses, ssh_env, stats,
                   fetches, ssh_calls, log, cur>>

----------------------------------------------------------------------------
(* The run of lines 446-455.                                                *)

Next ==
    \/ GetQemuList
    \/ GetLxcList
    \/ GetHostStats
    \/ GetNasStats
    \/ GetVmStats
    \/ PublishConnect
    \/ PublishStat
    \/ PublishTypeError
    \/ PublishLoopStop
    \/ MainDone
    \/ DiscoveryConnect
    \/ DiscoveryPublish
    \/ DiscoveryEnd

Spec == Init /\ [][Next]_vars

\* A harness that calls publish_all_stats_to_mqtt a second time on the stats
\* of the first call, once that call has returned.
PublishAgain ==
    /\ pc = "main_if"
    /\ Len(clients) = 1
    /\ StartPublishAll
    /\ UNCHANGED <<publish_discovery, vms, node_status, vm_statuses, ssh_env, stats,
                   fetches, ssh_calls, log>>

NextTwice ==
    \/ GetQemuList
    \/ GetLxcList
    \/ GetHostStats
    \/ GetNasStats
    \/ GetVmStats
    \/ PublishConnect
    \/ PublishStat
    \/ PublishTypeError
    \/ PublishLoopStop
    \/ PublishAgain

SpecTwice == Init /\ [][NextTwice]_vars
----------------------------------------------------------------------------
(* Properties.                                                              *)

\* The MetricSets of stats in the order host, VMs and containers, NAS.
AllDevices == stats.host.list \o stats.vms.list \o stats.nas.list

\* The (key, value, owning device) of every metric of a list of devices,
\* device after device, each in its insertion order.
RECURSIVE Flatten(_)
Flatten(devices) ==
    IF devices = <<>> THEN <<>>
    ELSE [j \in 1..Len(Head(devices).stats) |->
            [key |-> Head(devices).stats[j].key,
             value |-> Head(devices).stats[j].value,
             device |-> Head(devices)]]
         \o Flatten(Tail(devices))

AllItems == Flatten(AllDevices)

HasStat(device, key) ==
    \E j \in 1..Len(device.stats) : device.stats[j].key = key

StatOf(device, key) ==
    device.stats[CHOOSE j \in 1..Len(device.stats) :
                    device.stats[j].key = key].value

\* The publishes made through the c-th client, in order.
ByClient(c) == SelectSeq(log, LAMBDA e : e.client = c)

IsPrefix(s, t) == Len(s) <= Len(t) /\ s = SubSeq(t, 1, Len(s))

\* C1: whenever the host status reports a total memory of 0 or a root
\* filesystem total of 0, get_host_stats does not end the run with a division
\* fault and returns a MetricSet whose memory_used_percent (resp.
\* disk_used_percent) is 0.
C1_HostStatsGuardZeroDenominator ==
    (Len(node_status) = 1 /\ host_stats_raises(node_status[1])) =>
        /\ err # "ZeroDivisionError"
        /\ Len(stats.host.list) = 1
        /\ node_status[1].memory.total = 0 =>
            StatOf(stats.host.list[1],
                   s_proxmox_host_memory_used_percent).n = 0
        /\ node_status[1].rootfs.total = 0 =>
            StatOf(stats.host.list[1],
                   s_proxmox_host_disk_used_percent).n = 0

\* The storage list was fetched and no entry has the configured name.
StorageMissed ==
    /\ \E j \in 1..Len(fetches) : fetches[j].path = "storage" /\ fetches[j].ok
    /\ stats.nas.is_none

\* C2: when no storage entry has the configured name, the run is not ended
\* by the missing volume: walking the stats raises no TypeError, and once
\* publish_all_stats_to_mqtt has returned every host and VM/container metric
\* has been published.
C2_MissingStorageIsNonFatal ==
    StorageMissed =>
        /\ err # "TypeError"
        /\ pc \in {"main_if", "discover", "done"} =>
            Len(ByClient(1)) = Len(AllItems)

\* The number of get_vm_disk_usage calls made for a guest id.
SshCallsFor(vmid) ==
    Cardinality({ j \in 1..Len(ssh_calls) : ssh_calls[j].vmid = vmid })

\* C3: for every virtual machine (qemu) collected, get_vm_stats makes no
\* remote-shell call and returns no disk_used_percent key when the guest's
\* host/username/key triple is not configured, and makes exactly one call
\* and returns the key when it is.
C3_RemoteShellOnlyWhenConfigured ==
    \A j \in 1..Len(vm_statuses) :
        vms[j].type = s_qemu =>
            LET key == sensor_key_prefix(s_qemu, vms[j].vmid)
                        \o s_underscore \o s_disk_used_percent
            IN  /\ SshCallsFor(vms[j].vmid) = IF ssh_env[j] THEN 1 ELSE 0
                /\ j <= Len(stats.vms.list) =>
                    (HasStat(stats.vms.list[j], key) <=> ssh_env[j])

\* The sensor_keys of the catalog entries that match a metric key.
MatchedKeys(sensor_key) ==
    { sensor_definitions[j].sensor_key : j \in Matches(sensor_key) }

\* C4, as stated: every metric key of the collected stats is suffix-matched
\* by exactly one catalog entry.
C4_ExactlyOneDefinitionMatches ==
    LET items == AllItems
    IN  \A j \in 1..Len(items) :
            Cardinality(Matches(items[j].key)) = 1

\* C4, amended: every metric key of the collected stats is suffix-matched by
\* at least one catalog entry; by exactly one, except a key that ends with
\* "unallocated_cpus", which the entries "unallocated_cpus" and "cpus" both
\* match, the first of them being "unallocated_cpus".
C4_EveryKeyMatchesADefinition ==
    LET items == AllItems
    IN  \A j \in 1..Len(items) :
            LET key == items[j].key
                matches == Matches(key)
            IN  /\ matches # {}
                /\ \/ Cardinality(matches) = 1
                   \/ /\ EndsWith(key, s_unallocated_cpus)
                      /\ MatchedKeys(key) = {s_unallocated_cpus, s_cpus}
                      /\ sensor_definitions[FirstMatch(key)].sensor_key
                            = s_unallocated_cpus

\* The stats hold the host, a virtual machine, a container and the NAS.
C4_AllKindsCollected ==
    /\ pc = "publish"
    /\ Len(stats.host.list) = 1
    /\ ~stats.nas.is_none
    /\ \E a, b \in 1..Len(stats.vms.list) :
        vms[a].type = s_qemu /\ vms[b].type = s_lxc

SomeFetchFailed ==
    \/ \E j \in 1..Len(fetches) : ~fetches[j].ok
    \/ \E j \in 1..Len(ssh_calls) : ~ssh_calls[j].ok

NumQemu == Cardinality({ j \in 1..Len(vms) : vms[j].type = s_qemu })

\* C5: a failed API fetch or remote-shell fetch ends the run with an error
\* and nothing published; every publish comes after all the fetches of the
\* cycle (two lists, host status, storage list, one status per guest, one
\* remote df per virtual machine) have succeeded.
C5_NoPublishUnlessAllFetchesSucceeded ==
    /\ SomeFetchFailed =>
        pc = "error" /\ err \in {"HTTPError", "SSHException"} /\ log = <<>>
    /\ log # <<>> =>
        /\ Len(fetches) = 4 + Len(vms)
        /\ Len(ssh_calls) = NumQemu
        /\ ~SomeFetchFailed

\* A per-guest fetch fails after an earlier guest was collected.
C5_LateFetchFailed ==
    /\ SomeFetchFailed
    /\ Len(stats.vms.list) >= 1
    /\ pc = "error"

\* C6: a run that ends successfully has opened exactly one bus connection,
\* made every publish through it, and disconnected it.
C6_OneConnectionOpenedAndClosed ==
    pc = "done" =>
        /\ Len(clients) = 1
        /\ \A j \in 1..Len(log) : log[j].client = 1
        /\ clients[1].disconnected

\* C7: no metric key occurs twice in the stats of one cycle, and no two
\* raw-metric publishes of the run go to the same topic.
C7_MetricKeysAndTopicsUnique ==
    LET items == AllItems
        raw == ByClient(1)
    IN  /\ Cardinality({ items[j].key : j \in 1..Len(items) }) = Len(items)
        /\ Cardinality({ raw[j].topic : j \in 1..Len(raw) }) = Len(raw)

\* A virtual machine and a container with the same vmid, or two guests of
\* one type, have been collected and published.
C7_TwoGuestsPublished ==
    /\ pc = "done"
    /\ Len(vms) >= 2
    /\ \E a, b \in 1..Len(vms) :
        a # b /\ (vms[a].vmid = vms[b].vmid \/ vms[a].type = vms[b].type)

\* What one call of publish_all_stats_to_mqtt is to publish: per metric of
\* every MetricSet, in order, <state_topic_prefix>/<key> with the value,
\* retained.
ExpectedPublishes ==
    LET items == AllItems
    IN  [j \in 1..Len(items) |->
            [topic |-> items[j].device.state_topic_prefix \o <<"/">>
                            \o items[j].key,
             payload |-> items[j].value,
             retain |-> TRUE]]

\* The (topic, value, retain) of the publishes of the c-th call.
CallPublishes(c) ==
    LET made == ByClient(c)
    IN  [j \in 1..Len(made) |->
            [topic |-> made[j].topic,
             payload |-> made[j].payload,
             retain |-> made[j].retain]]

\* The c-th call of publish_all_stats_to_mqtt has walked all MetricSets.
CallOver(c) ==
    \/ c < Len(clients)
    \/ pc = "main_if"
    \/ pc = "error" /\ err = "TypeError"

\* C8: each call of publish_all_stats_to_mqtt publishes once per metric, to
\* <state_topic_prefix>/<key>, retained, in the order host, guests in
\* enumeration order, NAS and in insertion order within each; a second call
\* on the same stats makes the same sequence of publishes.
C8_PublishesOncePerMetricInOrder ==
    LET expected == ExpectedPublishes
    IN  /\ \A c \in 1..Len(clients) :
            LET made == CallPublishes(c)
            IN  /\ IsPrefix(made, expected)
                /\ CallOver(c) => Len(made) = Len(expected)
        /\ (Len(clients) = 2 /\ pc = "main_if") =>
            CallPublishes(1) = CallPublishes(2)

\* Two calls have returned on stats that hold a guest and the NAS.
C8_TwoCallsReturned ==
    /\ pc = "main_if"
    /\ Len(clients) = 2
    /\ Len(stats.vms.list) >= 1
    /\ ~stats.nas.is_none
    /\ Len(log) = 2 * Len(AllItems)

\* C9: a container's disk_used_percent is the percentage of its byte counts,
\* round(disk / maxdisk * 100, 2), and 0 when maxdisk is 0.
C9_LxcDiskPercentFromBytes ==
    \A j \in 1..Len(stats.vms.list) :
        vms[j].type = s_lxc =>
            LET key == sensor_key_prefix(s_lxc, vms[j].vmid)
                        \o s_underscore \o s_disk_used_percent
                maxdisk == Get(vm_statuses[j], "maxdisk", 0)
                disk == Get(vm_statuses[j], "disk", 0)
            IN  StatOf(stats.vms.list[j], key).n =
                    IF maxdisk > 0 THEN Percent(disk, maxdisk) ELSE 0

\* C10: the j-th discovery message is about the j-th metric key: its
\* unique_id is that key, its state_topic the topic the key's value was
\* published to, and it carries state_class "measurement" exactly when the
\* matched definition's device_class is not "timestamp".
C10_DiscoveryPayloadFollowsDefinition ==
    LET items == AllItems
        raw == ByClient(1)
        discovery == ByClient(2)
    IN  \A j \in 1..Len(discovery) :
            LET payload == discovery[j].payload
                key == items[j].key
                definition == sensor_definitions[FirstMatch(key)]
            IN  /\ payload.unique_id = key
                /\ payload.state_topic = raw[j].topic
                /\ ("state_class" \in DOMAIN payload)
                        <=> (definition.device_class # "timestamp")
                /\ ("state_class" \in DOMAIN payload)
                        => payload.state_class = "measurement"

\* Discovery has been published for every metric of a run with a guest and
\* the NAS, its timestamps included.
C10_DiscoveryPublished ==
    /\ pc = "done"
    /\ publish_discovery
    /\ Len(stats.vms.list) >= 1
    /\ ~stats.nas.is_none
    /\ LET discovery == ByClient(2)
       IN  /\ Len(discovery) = Len(AllItems)
           /\ \E j \in 1..Len(discovery) :
                "state_class" \notin DOMAIN discovery[j].payload
====
